---- MODULE Spec2Model ----
(***************************************************************************)
(* Job orchestration of the code-analysis server: the analyze_repository   *)
(* handler, the job queue loop, the steps of one analysis job and the      *)
(* sharded file analysis.                                                  *)
(*                                                                         *)
(* The program runs on one JavaScript event loop.  An action is the code   *)
(* that runs between two suspension points that wait for I/O (git clone,   *)
(* glob, file reads, database round trips, directory removal).  An await   *)
(* on a promise that is resolved without I/O (calculateBasicMetrics) is    *)
(* continued in the same microtask drain, so no other callback of the      *)
(* program runs in between and the code around it is one action.           *)
(***************************************************************************)
EXTENDS Integers, Sequences, FiniteSets, Bags, TLC

\* ---------------------------------------------------------------- bounds
MaxJobs == 1
MaxFiles == 3
MaxWorkers == 2
\* Jobs submitted in the specification of the queue order (SpecFifo).
MaxQueued == 3

\* Longest list handed to one storeEntities / storeRelationships call.
MaxItems == 3

\* config.batchSize (NEO4J_BATCH_SIZE, 1000 by default).
ConfigBatchSize == 2

\* Nodes in the body of the function whose complexity is computed.
MaxNodes == 3

\* parallel_workers is taken from the request unchecked
\* (tool-handlers.ts:100,129): negative, zero and positive numbers.
WorkerValues == (0 - 1) .. MaxWorkers

\* Error messages that end up in job.error.
CloneError == "git clone failed"
DiscoverError == "glob failed"
StoreEntitiesError == "Failed to store entities"
StoreRelationshipsError == "Failed to store relationships"
RemoveError == "rm failed"

VARIABLES
  jobs,              \* every AnalysisJob object created so far, by job id
  activeJobs,        \* instance.activeJobs: ids in the status table
  jobQueue,          \* instance.jobQueue: ids waiting, head first
  isProcessingQueue, \* instance.isProcessingQueue
  cur,               \* id of the job inside executeAnalysisJob, 0 if none
  pc,                \* suspension point of executeAnalysisJob
  files,             \* discovered file list of the current job
  batches,           \* analyzeFiles: the shards
  pos,               \* per shard: number of files its worker has finished
  batchEntities,     \* per shard: files whose entities were collected
  entities,          \* analyzeFiles: combined entities after the join
  extracted,         \* analyzeFiles: inputs of its extractRelationships calls
  tempDirs,          \* ids of jobs whose temporary directory is on disk
  stopped,           \* the process has exited after shutdown()
  reply,             \* outcome of the last call made to the server
  graph,             \* content of the Neo4j database: nodes and relationships
  dbCall,            \* the GraphDatabaseManager call in progress
  relInput,          \* entity list handed to extractRelationships
  relOutput,         \* relationships it returned
  ast,               \* syntax tree under a function node
  cyclomatic,        \* calculateCyclomaticComplexity of that function
  cognitive,         \* calculateCognitiveComplexity of that function
  pipeline           \* one job from the join to the end of its store calls

vars == <<jobs, activeJobs, jobQueue, isProcessingQueue, cur, pc, files,
          batches, pos, batchEntities, entities, extracted, tempDirs, stopped,
          reply, graph, dbCall, relInput, relOutput, ast, cyclomatic,
          cognitive, pipeline>>

\* The state of the persistence layer, of the relationship resolver and of
\* the complexity metrics: the orchestration steps below leave it alone.
layerVars == <<graph, dbCall, relInput, relOutput, ast, cyclomatic,
               cognitive, pipeline>>

runVars == <<files, batches, pos, batchEntities, entities, extracted>>

\* ------------------------------------------------------------ job object
NewJob(pw) ==
  [status |-> "pending", progress |-> 0, parallelWorkers |-> pw,
   totalFiles |-> 0, processedFiles |-> 0, skippedFiles |-> 0,
   entitiesFound |-> 0, ended |-> FALSE, results |-> <<>>, error |-> <<>>]

Terminal == {"completed", "failed"}

\* processJobQueue's catch block: the job is marked failed with the message.
FailJobNoMessage(j, msg) ==
  [j EXCEPT !.status = "failed", !.ended = TRUE]

FailJob(j, msg) ==
  [j EXCEPT !.status = "failed", !.error = <<msg>>, !.ended = TRUE]

\* executeAnalysisJob, first statements: the job becomes running.
StartJob(j) == [j EXCEPT !.status = "running", !.progress = 10]

\* jobQueue.push(job)
EnqueueFront(q, id) == <<id>> \o q

Enqueue(q, id) == Append(q, id)

\* The test that lets a processJobQueue call enter its loop
\* (the caller's flag test and the function's own guard).
QueueGuardNoFlag(processing, q) == Len(q) > 0

QueueGuard(processing, q) == ~processing /\ Len(q) > 0

\* ------------------------------------------------------- processJobQueue
\* The loop of processJobQueue from its head: js and q are the jobs and
\* the queue as the previous iteration left them.  It runs until the next
\* job is suspended in git clone, or the queue is empty.
ProcessLoop(js, q) ==
  IF Len(q) > 0
  THEN /\ jobQueue' = Tail(q)
       /\ cur' = Head(q)
       /\ jobs' = [js EXCEPT ![Head(q)] = StartJob(@)]
       /\ pc' = "clone"
       /\ isProcessingQueue' = TRUE
  ELSE /\ jobQueue' = q
       /\ cur' = 0
       /\ jobs' = js
       /\ pc' = "idle"
       /\ isProcessingQueue' = FALSE

\* The locals of executeAnalysisJob and analyzeFiles go out of scope.
ResetRun ==
  /\ files' = <<>>
  /\ batches' = <<>>
  /\ pos' = <<>>
  /\ batchEntities' = <<>>
  /\ entities' = <<>>
  /\ extracted' = <<>>

\* executeAnalysisJob throws: rethrown, caught by processJobQueue, which
\* marks the job failed and goes on with the loop.
JobThrows(msg) ==
  /\ ProcessLoop([jobs EXCEPT ![cur] = FailJob(@, msg)], jobQueue)
  /\ ResetRun
  /\ UNCHANGED <<activeJobs, tempDirs, stopped>>

\* ------------------------------------------------------ analyzeRepository
AnalyzeRepository(pw) ==
  /\ ~stopped
  /\ reply' = "accepted"
  /\ UNCHANGED layerVars
  /\ pc # "hang"
  /\ LET id == Len(jobs) + 1
         js == Append(jobs, NewJob(pw))
         q  == Enqueue(jobQueue, id)
     IN /\ activeJobs' = activeJobs \cup {id}
        /\ IF QueueGuard(isProcessingQueue, q)
           THEN ProcessLoop(js, q)
           ELSE /\ jobs' = js
                /\ jobQueue' = q
                /\ UNCHANGED <<cur, pc, isProcessingQueue>>
  /\ UNCHANGED <<runVars, tempDirs, stopped>>

\* A request without repository_url: McpError(InvalidParams) is thrown
\* before anything else is done.
AnalyzeRepositoryNoUrl ==
  /\ ~stopped
  /\ pc # "hang"
  /\ reply' = "InvalidParams"
  /\ UNCHANGED <<jobs, activeJobs, jobQueue, isProcessingQueue, cur, pc,
                 runVars, tempDirs, stopped, layerVars>>

\* The guard without its test of the flag.
ReturnsOnEmptyQueue(processing, q) == Len(q) = 0

\* if (instance.isProcessingQueue || instance.jobQueue.length === 0) return;
ReturnsAtOnce(processing, q) == processing \/ Len(q) = 0

\* A call of instance.processJobQueue() by any caller: the guard returns at
\* once, or the call sets the flag and enters the loop.
ProcessJobQueue ==
  /\ ~stopped
  /\ pc # "hang"
  /\ reply' = "processJobQueue returned"
  /\ IF ReturnsAtOnce(isProcessingQueue, jobQueue)
     THEN UNCHANGED <<jobs, jobQueue, cur, pc, isProcessingQueue>>
     ELSE ProcessLoop(jobs, jobQueue)
  /\ UNCHANGED <<activeJobs, runVars, tempDirs, stopped, layerVars>>

\* ------------------------------------------------------ getAnalysisStatus
JobIdRequired == "job_id is required"
JobNotFound == "Job not found"

\* A lookup in the queue finds waiting jobs only.
GetAnalysisStatusFromQueue(id) ==
  IF id = 0 THEN [error |-> <<JobIdRequired>>, job |-> <<>>]
  ELSE IF \E k \in 1..Len(jobQueue) : jobQueue[k] = id
       THEN [error |-> <<>>, job |-> <<jobs[id]>>]
       ELSE [error |-> <<JobNotFound>>, job |-> <<>>]

\* The reply to get_analysis_status for job id `id` (0: no id given).
GetAnalysisStatus(id) ==
  IF id = 0 THEN [error |-> <<JobIdRequired>>, job |-> <<>>]
  ELSE IF id \in activeJobs
       THEN [error |-> <<>>, job |-> <<jobs[id]>>]
       ELSE [error |-> <<JobNotFound>>, job |-> <<>>]

\* ------------------------------------------------------- cloneRepository
CloneRepositoryOk ==
  /\ ~stopped
  /\ UNCHANGED <<reply, layerVars>>
  /\ pc = "clone"
  /\ tempDirs' = tempDirs \cup {cur}
  /\ jobs' = [jobs EXCEPT ![cur].progress = 20]
  /\ pc' = "discover"
  /\ UNCHANGED <<activeJobs, jobQueue, isProcessingQueue, cur, runVars, stopped>>

CloneRepositoryFails ==
  /\ ~stopped
  /\ UNCHANGED <<reply, layerVars>>
  /\ pc = "clone"
  /\ JobThrows(CloneError)

\* ----------------------------------------------------------- discoverFiles
\* Math.ceil(files.length / parallelWorkers) for a zero divisor.
Infinity == MaxFiles + 2

\* Math.floor in the place of Math.ceil.
BatchSizeFloor(n, w) ==
  IF w > 0 THEN n \div w
  ELSE IF w = 0 THEN Infinity
  ELSE 0 - (n \div (0 - w))

\* const batchSize = Math.ceil(files.length / job.config.parallelWorkers)
BatchSize(n, w) ==
  IF w > 0 THEN (n + w - 1) \div w
  ELSE IF w = 0 THEN Infinity
  ELSE 0 - (n \div (0 - w))

Min(a, b) == IF a < b THEN a ELSE b

Range(q) == {q[k] : k \in 1..Len(q)}

\* files.slice(i, i + batchSize) for 0 <= i < files.length, batchSize > 0
Slice(fs, i, j) == SubSeq(fs, i + 1, Min(j, Len(fs)))

\* for (let i = 0; i < files.length; i += batchSize) batches.push(...)
RECURSIVE BuildBatches(_, _, _)
BuildBatches(fs, i, bs) ==
  IF i < Len(fs)
  THEN <<Slice(fs, i, i + bs)>> \o BuildBatches(fs, i + bs, bs)
  ELSE <<>>

\* The loop never ends when it is entered with a step that is not positive.
LoopDiverges(n, bs) == n > 0 /\ bs <= 0

FileList(n) == [k \in 1..n |-> k]

\* discoverFiles returns n files; executeAnalysisJob goes on into
\* analyzeFiles, which builds the shards and starts one worker per shard,
\* each suspended in the read of its first file.
DiscoverFilesOk(n) ==
  /\ ~stopped
  /\ UNCHANGED <<reply, layerVars>>
  /\ pc = "discover"
  /\ jobs' = [jobs EXCEPT ![cur].totalFiles = n, ![cur].progress = 30]
  /\ files' = FileList(n)
  /\ LET bs == BatchSize(n, jobs[cur].parallelWorkers)
     IN IF LoopDiverges(n, bs)
        THEN /\ pc' = "hang"
             /\ UNCHANGED <<batches, pos, batchEntities>>
        ELSE LET b == BuildBatches(FileList(n), 0, bs)
             IN /\ batches' = b
                /\ pos' = [s \in 1..Len(b) |-> 0]
                /\ batchEntities' = [s \in 1..Len(b) |-> <<>>]
                /\ pc' = "analyze"
  /\ UNCHANGED <<activeJobs, jobQueue, isProcessingQueue, cur, entities,
                 extracted, tempDirs, stopped>>

DiscoverFilesFails ==
  /\ ~stopped
  /\ UNCHANGED <<reply, layerVars>>
  /\ pc = "discover"
  /\ JobThrows(DiscoverError)

\* ------------------------------------------------------------ analyzeFiles
ShardIds == 1..Len(batches)

\* The worker of shard s is waiting for the analysis of a file.
Working(s) == pc = "analyze" /\ s \in ShardIds /\ pos[s] < Len(batches[s])

CurrentFile(s) == batches[s][pos[s] + 1]

\* 30 + Math.floor((processedFiles / totalFiles) * 40)
FileProgressNoBase(processed, total) == (processed * 40) \div total

FileProgress(processed, total) == 30 + (processed * 40) \div total

\* job.metadata.processedFiles++ and the progress update after it
CountProcessed(j) ==
  [j EXCEPT !.processedFiles = @ + 1,
            !.progress = FileProgress(j.processedFiles + 1, j.totalFiles)]

\* job.metadata.skippedFiles++ in the catch block
CountSkippedTwice(j) ==
  [j EXCEPT !.skippedFiles = @ + 1, !.processedFiles = @ + 1]

CountSkipped(j) == [j EXCEPT !.skippedFiles = @ + 1]

\* The for loop of a worker goes to the next file of its shard, also
\* after the catch block.
AbortShard(p, len) == len

NextPos(p, len) == p + 1

\* analyzeFile resolves with the entities of the file.
AnalyzeFileOk(s) ==
  /\ ~stopped
  /\ UNCHANGED <<reply, layerVars>>
  /\ Working(s)
  /\ batchEntities' = [batchEntities EXCEPT ![s] = Append(@, CurrentFile(s))]
  /\ jobs' = [jobs EXCEPT ![cur] = CountProcessed(@)]
  /\ pos' = [pos EXCEPT ![s] = NextPos(@, Len(batches[s]))]
  /\ UNCHANGED <<activeJobs, jobQueue, isProcessingQueue, cur, pc, files,
                 batches, entities, extracted, tempDirs, stopped>>

\* validateSyntax reports errors: analyzeFile resolves with [].
AnalyzeFileInvalidSyntax(s) ==
  /\ ~stopped
  /\ UNCHANGED <<reply, layerVars>>
  /\ Working(s)
  /\ jobs' = [jobs EXCEPT ![cur] = CountProcessed(@)]
  /\ pos' = [pos EXCEPT ![s] = NextPos(@, Len(batches[s]))]
  /\ UNCHANGED <<activeJobs, jobQueue, isProcessingQueue, cur, pc, files,
                 batches, batchEntities, entities, extracted, tempDirs,
                 stopped>>

\* analyzeFile rejects (the file cannot be read, the analyzer throws).
AnalyzeFileThrows(s) ==
  /\ ~stopped
  /\ UNCHANGED <<reply, layerVars>>
  /\ Working(s)
  /\ jobs' = [jobs EXCEPT ![cur] = CountSkipped(@)]
  /\ pos' = [pos EXCEPT ![s] = NextPos(@, Len(batches[s]))]
  /\ UNCHANGED <<activeJobs, jobQueue, isProcessingQueue, cur, pc, files,
                 batches, batchEntities, entities, extracted, tempDirs,
                 stopped>>

RECURSIVE Concat(_)
Concat(ss) == IF ss = <<>> THEN <<>> ELSE Head(ss) \o Concat(Tail(ss))

\* Promise.race in the place of Promise.all.
AnyShardDone == \E s \in ShardIds : pos[s] >= Len(batches[s])

\* await Promise.all(batchPromises): every worker has left its loop.
AllShardsDone == \A s \in ShardIds : pos[s] >= Len(batches[s])

\* if (entities.length > 0) { ... analyzer.extractRelationships(entities) }
ExtractionCalls(es) == IF Len(es) > 0 THEN <<es>> ELSE <<>>

\* Promise.all resolves: the results are combined, relationships are
\* extracted and executeAnalysisJob goes on up to the first database write.
JoinBatches ==
  /\ ~stopped
  /\ UNCHANGED <<reply, layerVars>>
  /\ pc = "analyze"
  /\ AllShardsDone
  /\ entities' = Concat(batchEntities)
  /\ extracted' = ExtractionCalls(Concat(batchEntities))
  /\ jobs' = [jobs EXCEPT ![cur].entitiesFound = Len(Concat(batchEntities)),
                          ![cur].progress = 80]
  /\ pc' = "storeEntities"
  /\ UNCHANGED <<activeJobs, jobQueue, isProcessingQueue, cur, files, batches,
                 pos, batchEntities, tempDirs, stopped>>

\* ------------------------------------------------------------- persistence
StoreEntitiesOk ==
  /\ ~stopped
  /\ UNCHANGED <<reply, layerVars>>
  /\ pc = "storeEntities"
  /\ pc' = "storeRelationships"
  /\ UNCHANGED <<jobs, activeJobs, jobQueue, isProcessingQueue, cur, runVars,
                 tempDirs, stopped>>

StoreEntitiesFails ==
  /\ ~stopped
  /\ UNCHANGED <<reply, layerVars>>
  /\ pc = "storeEntities"
  /\ JobThrows(StoreEntitiesError)

\* The job is completed: status, endTime and results are set, then the
\* removal of the temporary directory is awaited.
CompleteJob(j, es) ==
  [j EXCEPT !.progress = 100, !.status = "completed", !.ended = TRUE,
            !.results = <<[entities |-> es, totalFiles |-> j.totalFiles]>>]

StoreRelationshipsOk ==
  /\ ~stopped
  /\ UNCHANGED <<reply, layerVars>>
  /\ pc = "storeRelationships"
  /\ jobs' = [jobs EXCEPT ![cur] = CompleteJob(@, entities)]
  /\ pc' = "rm"
  /\ UNCHANGED <<activeJobs, jobQueue, isProcessingQueue, cur, runVars,
                 tempDirs, stopped>>

StoreRelationshipsFails ==
  /\ ~stopped
  /\ UNCHANGED <<reply, layerVars>>
  /\ pc = "storeRelationships"
  /\ JobThrows(StoreRelationshipsError)

\* ----------------------------------------------------------------- cleanup
\* fs.rm(tempDir) resolves: executeAnalysisJob returns to the queue loop.
RemoveTempDirOk ==
  /\ ~stopped
  /\ UNCHANGED <<reply, layerVars>>
  /\ pc = "rm"
  /\ tempDirs' = tempDirs \ {cur}
  /\ ProcessLoop(jobs, jobQueue)
  /\ ResetRun
  /\ UNCHANGED <<activeJobs, stopped>>

\* fs.rm(tempDir) rejects (force only covers a missing path): the error
\* leaves executeAnalysisJob like any other.
RemoveTempDirFails ==
  /\ ~stopped
  /\ UNCHANGED <<reply, layerVars>>
  /\ pc = "rm"
  /\ JobThrows(RemoveError)

\* ---------------------------------------------------------------- shutdown
\* shutdown() empties the table and the queue; every caller exits the
\* process right after it.
Shutdown ==
  /\ ~stopped
  /\ UNCHANGED <<reply, layerVars>>
  /\ pc # "hang"
  /\ activeJobs' = {}
  /\ jobQueue' = <<>>
  /\ stopped' = TRUE
  /\ UNCHANGED <<jobs, isProcessingQueue, cur, pc, runVars, tempDirs>>

\* ============================================================ persistence
\* GraphDatabaseManager (graph/database.ts).  The database holds CodeEntity
\* nodes and CodeRelationship relationships; both are bags, because CREATE
\* adds an element whether or not an equal one is there.
GraphIds == {"g1", "g2"}
EntityIds == {"A", "B", "C"}

\* A target id that belongs to no entity: extractInheritanceRelationships
\* and unresolved imports put a fresh uuid in targetId.
Placeholder == "X"

Node(id, graphId) == [id |-> id, graphId |-> graphId]

RelationshipPool ==
  { [id |-> "r1", sourceId |-> "A", targetId |-> "B", type |-> "IMPORTS"],
    [id |-> "r2", sourceId |-> "B", targetId |-> "C", type |-> "IMPORTS"],
    [id |-> "r3", sourceId |-> "C", targetId |-> "A", type |-> "IMPORTS"],
    [id |-> "r4", sourceId |-> "A", targetId |-> Placeholder,
     type |-> "INHERITS"] }

StoredRelationship(rel, graphId) ==
  [id |-> rel.id, sourceId |-> rel.sourceId, targetId |-> rel.targetId,
   type |-> rel.type, graphId |-> graphId]

EmptyGraph == [nodes |-> EmptyBag, rels |-> EmptyBag]

\* The lists a caller passes: at most MaxItems elements, no element twice
\* (every entity and relationship gets its own uuid).
ListsOf(S) ==
  UNION { {q \in [1..n -> S] : \A a, b \in 1..n : q[a] = q[b] => a = b} :
          n \in 0..MaxItems }

Occurrences(x, q) == Cardinality({k \in 1..Len(q) : q[k] = x})

\* No uniqueness constraint in force.
NotEnforced(b) == TRUE

\* REQUIRE e.id IS UNIQUE / REQUIRE r.id IS UNIQUE: over all elements of
\* the label, whatever their graphId.
Unique(b) ==
  \A x \in BagToSet(b) :
    /\ CopiesIn(x, b) = 1
    /\ \A y \in BagToSet(b) : x.id = y.id => x = y

\* UNWIND $entities AS entity CREATE (e:CodeEntity) SET ... in one
\* auto-commit transaction: all of the batch or nothing.
StoreEntityBatch(g, batch, graphId) ==
  LET created == [n \in {Node(e, graphId) : e \in Range(batch)} |->
                    Occurrences(n.id, batch)]
      nodes == g.nodes (+) created
  IN  IF Unique(nodes)
      THEN [ok |-> TRUE, graph |-> [g EXCEPT !.nodes = nodes]]
      ELSE [ok |-> FALSE, graph |-> g]

\* Every row matches.
MatchAnything(g, id, graphId) == 1

\* MATCH (n:CodeEntity {id: ..., graphId: $graphId}): the number of rows.
MatchEntity(g, id, graphId) == CopiesIn(Node(id, graphId), g.nodes)

\* UNWIND $relationships AS rel MATCH source MATCH target CREATE ...: a
\* relationship is created for every row where both ends match; a rel with
\* an unmatched end yields no row and is dropped without an error.
StoreRelationshipBatch(g, batch, graphId) ==
  LET Rows(rel) == Occurrences(rel, batch)
                     * MatchEntity(g, rel.sourceId, graphId)
                     * MatchEntity(g, rel.targetId, graphId)
      matched == {rel \in Range(batch) : Rows(rel) > 0}
      created == [x \in {StoredRelationship(rel, graphId) : rel \in matched}
                    |-> Rows([id |-> x.id, sourceId |-> x.sourceId,
                              targetId |-> x.targetId, type |-> x.type])]
      rels == g.rels (+) created
  IN  IF Unique(rels)
      THEN [ok |-> TRUE, graph |-> [g EXCEPT !.rels = rels]]
      ELSE [ok |-> FALSE, graph |-> g]

StoreBatch(op, g, batch, graphId) ==
  IF op = "storeEntities" THEN StoreEntityBatch(g, batch, graphId)
                          ELSE StoreRelationshipBatch(g, batch, graphId)

\* MATCH ()-[r]-() DELETE r for every graph id.
DeleteAllRelationships(g, graphId) == [g EXCEPT !.rels = EmptyBag]

\* MATCH ()-[r:CodeRelationship {graphId: $graphId}]-() DELETE r
DeleteRelationships(g, graphId) ==
  [g EXCEPT !.rels = [x \in {y \in BagToSet(g.rels) : y.graphId # graphId}
                        |-> CopiesIn(x, g.rels)]]

\* MATCH (n:CodeEntity {graphId: $graphId}) DELETE n
DeleteEntities(g, graphId) ==
  [g EXCEPT !.nodes = [x \in {y \in BagToSet(g.nodes) : y.graphId # graphId}
                         |-> CopiesIn(x, g.nodes)]]

\* DELETE n is refused while a relationship is attached to n.
Attached(g, graphId) ==
  \E r \in BagToSet(g.rels) :
    \E n \in BagToSet(g.nodes) :
      n.graphId = graphId /\ (r.sourceId = n.id \/ r.targetId = n.id)
                          /\ r.graphId = n.graphId

\* The cycle query calls path(start, r, start), which is no Cypher function,
\* and passes maxCycles, a JavaScript number and so a float, to LIMIT: the
\* server rejects the statement whatever the graph holds.
CycleQueryError == "Find circular dependencies failed"

\* findCircularDependencies: executeQuery throws, the catch block wraps the
\* error in a DatabaseError.
FindCircularDependencies(g, graphId, maxCycles) ==
  [error |-> <<CycleQueryError>>, cycles |-> {}]

\* ---- one call of the manager, from its first await to its result
IdleCall ==
  [op |-> "idle", items |-> <<>>, graphId |-> "g1", i |-> 0,
   attempts |-> <<>>, outcome |-> "resolved", failure |-> "none",
   error |-> <<>>]

StoreOps == {"storeEntities", "storeRelationships"}

StoreError(op) ==
  IF op = "storeEntities" THEN StoreEntitiesError ELSE StoreRelationshipsError

DeleteError == "Failed to delete graph"

\* for (let i = 0; i < items.length; i += batchSize): with nothing to write
\* the call resolves without a statement.
NewCall(op, items, graphId) ==
  [op |-> op, items |-> items, graphId |-> graphId, i |-> 0,
   attempts |-> <<>>,
   outcome |-> IF op \in StoreOps /\ Len(items) = 0 THEN "resolved"
                                                     ELSE "pending",
   failure |-> "none", error |-> <<>>]

\* items.slice(i, i + batchSize)
CurrentBatch(c) == Slice(c.items, c.i, c.i + ConfigBatchSize)

\* The batch was written: i += batchSize, and the loop ends at items.length.
BatchStored(c) ==
  [c EXCEPT !.i = @ + ConfigBatchSize,
            !.attempts = Append(@, CurrentBatch(c)),
            !.outcome = IF c.i + ConfigBatchSize < Len(c.items)
                        THEN "pending" ELSE "resolved"]

\* The loop goes on with the next batch after a failed write.
BatchFailedContinue(c, why) ==
  [BatchStored(c) EXCEPT !.failure = why]

\* session.run rejected: storeXBatch rethrows, the loop is left and the
\* catch block throws DatabaseError(message).
BatchFailed(c, why) ==
  [c EXCEPT !.attempts = Append(@, CurrentBatch(c)),
            !.outcome = "rejected",
            !.failure = why,
            !.error = <<StoreError(c.op)>>]

jobVars == <<jobs, activeJobs, jobQueue, isProcessingQueue, cur, pc, files,
             batches, pos, batchEntities, entities, extracted, tempDirs,
             stopped, reply>>

\* storeEntities(entities, graphId) / storeRelationships(rels, graphId) up
\* to the first session.run.
StoreCall(op, items, graphId) ==
  /\ dbCall.outcome # "pending"
  /\ dbCall' = NewCall(op, items, graphId)
  /\ UNCHANGED <<graph, jobVars, relInput, relOutput, ast, cyclomatic,
                 cognitive, pipeline>>

\* One session.run of the loop: the statement commits, or it violates a
\* uniqueness constraint, or the connection fails (connection = TRUE).
StoreBatchRun(connection) ==
  /\ dbCall.op \in StoreOps
  /\ dbCall.outcome = "pending"
  /\ LET r == StoreBatch(dbCall.op, graph, CurrentBatch(dbCall),
                         dbCall.graphId)
     IN  IF connection
         THEN /\ dbCall' = BatchFailed(dbCall, "connection")
              /\ graph' = graph
         ELSE IF r.ok
         THEN /\ dbCall' = BatchStored(dbCall)
              /\ graph' = r.graph
         ELSE /\ dbCall' = BatchFailed(dbCall, "constraint")
              /\ graph' = graph
  /\ UNCHANGED <<jobVars, relInput, relOutput, ast, cyclomatic,
                 cognitive, pipeline>>

\* storeEntities / storeRelationships run to the end with every statement
\* reaching the server: the graph they leave and whether they resolved.
RECURSIVE StoreFrom(_, _, _, _, _)
StoreFrom(op, g, items, graphId, i) ==
  IF i < Len(items)
  THEN LET r == StoreBatch(op, g, Slice(items, i, i + ConfigBatchSize),
                           graphId)
       IN  IF r.ok
           THEN StoreFrom(op, r.graph, items, graphId, i + ConfigBatchSize)
           ELSE [ok |-> FALSE, graph |-> g]
  ELSE [ok |-> TRUE, graph |-> g]

\* deleteGraph(graphId) up to its first session.run.
DeleteGraphCall(graphId) ==
  /\ dbCall.outcome # "pending"
  /\ dbCall' = NewCall("deleteGraph", <<>>, graphId)
  /\ UNCHANGED <<graph, jobVars, relInput, relOutput, ast, cyclomatic,
                 cognitive, pipeline>>

DeleteFailed(c) ==
  [c EXCEPT !.outcome = "rejected", !.failure = "connection",
            !.error = <<DeleteError>>]

\* First statement of deleteGraph: the relationships of the graph id.
DeleteRelationshipsRun(connection) ==
  /\ dbCall.op = "deleteGraph"
  /\ dbCall.outcome = "pending"
  /\ dbCall.i = 0
  /\ IF connection
     THEN /\ dbCall' = DeleteFailed(dbCall)
          /\ graph' = graph
     ELSE /\ dbCall' = [dbCall EXCEPT !.i = 1]
          /\ graph' = DeleteRelationships(graph, dbCall.graphId)
  /\ UNCHANGED <<jobVars, relInput, relOutput, ast, cyclomatic,
                 cognitive, pipeline>>

\* Second statement of deleteGraph: the entities of the graph id.
DeleteEntitiesRun(connection) ==
  /\ dbCall.op = "deleteGraph"
  /\ dbCall.outcome = "pending"
  /\ dbCall.i = 1
  /\ IF connection \/ Attached(graph, dbCall.graphId)
     THEN /\ dbCall' = DeleteFailed(dbCall)
          /\ graph' = graph
     ELSE /\ dbCall' = [dbCall EXCEPT !.i = 2, !.outcome = "resolved"]
          /\ graph' = DeleteEntities(graph, dbCall.graphId)
  /\ UNCHANGED <<jobVars, relInput, relOutput, ast, cyclomatic,
                 cognitive, pipeline>>

\* =================================================== relationship extraction
\* TypeScriptAnalyzer.extractRelationships (analyzers/typescript.ts).  An
\* entity is its id, type, filePath and the two properties the extraction
\* reads; ids are the positions in the list (every entity has its own uuid).
FilePaths == {"a.ts", "b.ts"}

EntityShapes ==
  [type : {"File"}, filePath : FilePaths,
   imports : {<<>>, <<"m">>}, inheritance : {<<>>}]
  \cup
  [type : {"Class"}, filePath : FilePaths,
   imports : {<<>>}, inheritance : {<<>>, <<"extends">>, <<"implements">>}]
  \cup
  [type : {"Function"}, filePath : FilePaths,
   imports : {<<>>}, inheritance : {<<>>}]

Entity(k, shape) ==
  [id |-> k, type |-> shape.type, filePath |-> shape.filePath,
   imports |-> shape.imports, inheritance |-> shape.inheritance]

\* A relationship as extractRelationships builds it.  strength and
\* confidence are in tenths (10 is 1.0); the relationship's own id is a
\* fresh uuid and is left out.
Relationship(sourceId, targetId, type, strength, confidence) ==
  [sourceId |-> sourceId, targetId |-> targetId, type |-> type,
   strength |-> strength, confidence |-> confidence]

\* importInfo.moduleId is never set by the analyzer: targetId is a uuid.
ExtractImportRelationships(es) ==
  Concat([k \in 1..Len(es) |->
    IF es[k].type = "File"
    THEN [j \in 1..Len(es[k].imports) |->
            Relationship(es[k].id, Placeholder, "IMPORTS", 8, 9)]
    ELSE <<>>])

ExtractCallRelationships(es) == <<>>

ExtractInheritanceRelationships(es) ==
  Concat([k \in 1..Len(es) |->
    IF es[k].type \in {"Class", "Interface"}
    THEN [j \in 1..Len(es[k].inheritance) |->
            Relationship(es[k].id, Placeholder,
                         IF es[k].inheritance[j] = "extends"
                         THEN "INHERITS" ELSE "IMPLEMENTS", 9, 8)]
    ELSE <<>>])

\* Every file contains every entity.
AnyPath(codeEntity, fileEntity) == TRUE

\* codeEntity.filePath === fileEntity.filePath
SamePath(codeEntity, fileEntity) == codeEntity.filePath = fileEntity.filePath

IsFile(e) == e.type = "File"
IsCode(e) == e.type # "File"

\* A file contains the entities of its path that follow it in the list.
ExtractContainmentOfFollowing(es) ==
  Concat([k \in 1..Len(es) |->
    IF IsFile(es[k])
    THEN LET In(c) == IsCode(c) /\ SamePath(c, es[k])
             cs == SelectSeq(SubSeq(es, k + 1, Len(es)), In)
         IN  [j \in 1..Len(cs) |-> Relationship(es[k].id, cs[j].id,
                                                "CONTAINS", 10, 10)]
    ELSE <<>>])

\* for (fileEntity of fileEntities) for (codeEntity of codeEntities) ...
ExtractContainmentRelationships(es) ==
  LET fileEntities == SelectSeq(es, IsFile)
      codeEntities == SelectSeq(es, IsCode)
      Contained(f) ==
        LET In(c) == SamePath(c, f)
            cs == SelectSeq(codeEntities, In)
        IN  [j \in 1..Len(cs) |-> Relationship(f.id, cs[j].id, "CONTAINS",
                                               10, 10)]
  IN  Concat([k \in 1..Len(fileEntities) |-> Contained(fileEntities[k])])

ExtractRelationships(es) ==
  ExtractImportRelationships(es) \o ExtractCallRelationships(es)
    \o ExtractInheritanceRelationships(es)
    \o ExtractContainmentRelationships(es)

\* analyzer.extractRelationships(entities) on the entity list grown by one
\* more entity.
ExtractRelationshipsRun(shape) ==
  /\ Len(relInput) < MaxItems
  /\ relInput' = Append(relInput, Entity(Len(relInput) + 1, shape))
  /\ relOutput' = ExtractRelationships(relInput')
  /\ UNCHANGED <<jobVars, graph, dbCall, ast, cyclomatic,
                 cognitive, pipeline>>

\* ============================================================= complexity
\* The syntax tree below a function node, as calculateCyclomaticComplexity
\* walks it: node k has a kind and a parent (0 is the function node itself,
\* otherwise an earlier node).
NodeKinds ==
  {"if", "while", "do", "for", "forin", "forof", "switch", "case",
   "conditional", "catch", "and", "or", "function", "other"}

\* A case clause adds nothing.
IncrementNoCase(kind) ==
  IF kind \in {"if", "while", "do", "for", "forin", "forof", "switch",
               "conditional", "catch"} THEN 1
  ELSE IF kind \in {"and", "or"} THEN 1
  ELSE 0

\* The if / else if chain of visit: what one node adds.
Increment(kind) ==
  IF kind \in {"if", "while", "do", "for", "forin", "forof", "switch",
               "conditional", "catch"} THEN 1
  ELSE IF kind = "case" THEN 1
  ELSE IF kind \in {"and", "or"} THEN 1
  ELSE 0

\* visit(n): the node's own increment, then ts.forEachChild(n, visit).
RECURSIVE Visit(_, _)
RECURSIVE VisitChildren(_, _, _)
Visit(t, n) ==
  (IF n = 0 THEN 0 ELSE Increment(t[n].kind)) + VisitChildren(t, n, n + 1)

VisitChildren(t, n, k) ==
  IF k > Len(t) THEN 0
  ELSE (IF t[k].parent = n THEN Visit(t, k) ELSE 0)
         + VisitChildren(t, n, k + 1)

\* let complexity = 1; visit(node); return complexity
CalculateCyclomaticComplexity(t) == 1 + Visit(t, 0)

\* Cognitive complexity: the increment of a node at nesting level nesting,
\* as the if / else if chain of its visit sets it.  A case clause matches no
\* branch of the chain.
CognitiveIncrement(kind, nesting) ==
  IF kind \in {"if", "switch", "while", "do", "for", "forin", "forof"}
  THEN 1 + nesting
  ELSE IF kind = "catch" THEN 1 + nesting
  ELSE IF kind = "conditional" THEN 1 + nesting
  ELSE IF kind \in {"and", "or"} THEN 1
  ELSE 0

\* Every construct adds a flat 1.
NoNesting(kind, nesting) == nesting

\* newNesting: one deeper below a statement construct or a catch clause.
NewNesting(kind, nesting) ==
  IF kind \in {"if", "switch", "while", "do", "for", "forin", "forof", "catch"}
  THEN nesting + 1
  ELSE nesting

\* visit(n, currentNesting): complexity += increment, then
\* ts.forEachChild(n, child => visit(child, newNesting)).
RECURSIVE CognitiveVisit(_, _, _)
RECURSIVE CognitiveVisitChildren(_, _, _, _)
CognitiveVisit(t, n, nesting) ==
  IF n = 0
  THEN CognitiveVisitChildren(t, 0, 1, nesting)
  ELSE CognitiveIncrement(t[n].kind, nesting)
         + CognitiveVisitChildren(t, n, n + 1, NewNesting(t[n].kind, nesting))

CognitiveVisitChildren(t, n, k, nesting) ==
  IF k > Len(t) THEN 0
  ELSE (IF t[k].parent = n THEN CognitiveVisit(t, k, nesting) ELSE 0)
         + CognitiveVisitChildren(t, n, k + 1, nesting)

\* let complexity = 0; visit(node, 0); return complexity
CalculateCognitiveComplexity(t) == CognitiveVisit(t, 0, 0)

\* The trees the TypeScript parser builds: a case clause lies in a switch
\* statement.
WellFormed(t, kind, parent) ==
  kind = "case" => (parent # 0 /\ t[parent].kind = "switch")

\* One more node in the function's body, and the metric of the new body.
AddNode(kind, parent) ==
  /\ Len(ast) < MaxNodes
  /\ WellFormed(ast, kind, parent)
  /\ ast' = Append(ast, [kind |-> kind, parent |-> parent])
  /\ cyclomatic' = CalculateCyclomaticComplexity(ast')
  /\ cognitive' = CalculateCognitiveComplexity(ast')
  /\ UNCHANGED <<jobVars, graph, dbCall, relInput, relOutput, pipeline>>

\* =============================================================== pipeline
\* executeAnalysisJob from the result of analyzeFiles to the end of its two
\* store calls, with the entities, the relationships and the database
\* statements spelled out.
NewPipeline ==
  [phase |-> "analyze", calls |-> <<>>, relationshipsFound |-> 0,
   results |-> <<>>, error |-> <<>>]

\* const graphId = `${job.id}_${Date.now()}`
JobGraph == "g1"

\* targetId: importInfo.moduleId || uuidv4(), and uuidv4() for inheritance:
\* an id that no entity has (entity ids are the positions 1, 2, ...).
Unresolved == 0

\* The entities as storeEntities receives them.
EntityItems(es) == [k \in 1..Len(es) |-> es[k].id]

\* The relationships as storeRelationships receives them, each with its own
\* id.
RelationshipItems(rs) ==
  [k \in 1..Len(rs) |->
     [id |-> k, sourceId |-> rs[k].sourceId,
      targetId |-> IF rs[k].type = "CONTAINS" THEN rs[k].targetId
                                              ELSE Unresolved,
      type |-> rs[k].type]]

\* The job goes on once storeEntities has settled, rejected or not.
EntitiesSettled(c) == c.outcome # "pending"

\* await instance.database.storeEntities(entities, graphId) returns.
EntitiesCommitted(c) == c.outcome = "resolved"

PipelineFailed(p, c) ==
  [pipeline |-> [p EXCEPT !.phase = "failed", !.error = c.error],
   dbCall |-> c]

\* executeAnalysisJob with storeRelationships at c: suspended in the next
\* statement, thrown out by the rejection, or completed.
AfterStoreRelationships(p, c, es, rs) ==
  IF c.outcome = "pending" THEN [pipeline |-> p, dbCall |-> c]
  ELSE IF c.outcome = "rejected" THEN PipelineFailed(p, c)
  ELSE [pipeline |->
          [p EXCEPT !.phase = "completed",
                    !.results = <<[entities |-> es, relationships |-> rs]>>],
        dbCall |-> c]

\* executeAnalysisJob with storeEntities at c: suspended in the next
\* statement, thrown out by the rejection, or on to storeRelationships.
AfterStoreEntities(p, c, es, rs) ==
  IF c.outcome = "pending" THEN [pipeline |-> p, dbCall |-> c]
  ELSE IF EntitiesCommitted(c)
  THEN AfterStoreRelationships(
         [p EXCEPT !.phase = "storeRelationships",
                   !.calls = Append(@, "storeRelationships")],
         NewCall("storeRelationships", RelationshipItems(rs), c.graphId),
         es, rs)
  ELSE PipelineFailed(p, c)

\* A shard worker adds an entity to the job's entity set.
PipelineEntityFound(shape) ==
  /\ pipeline.phase = "analyze"
  /\ Len(relInput) < MaxItems
  /\ relInput' = Append(relInput, Entity(Len(relInput) + 1, shape))
  /\ UNCHANGED <<jobVars, graph, dbCall, relOutput, ast, cyclomatic,
                 cognitive, pipeline>>

\* analyzeFiles returns: relationships are extracted, the counts are set
\* and storeEntities is called.
PipelineJoin ==
  /\ pipeline.phase = "analyze"
  /\ LET rs == IF Len(relInput) > 0 THEN ExtractRelationships(relInput)
                                    ELSE <<>>
         p == [pipeline EXCEPT !.relationshipsFound = Len(rs),
                               !.phase = "storeEntities",
                               !.calls = <<"storeEntities">>]
         next == AfterStoreEntities(
                   p, NewCall("storeEntities", EntityItems(relInput),
                              JobGraph), relInput, rs)
     IN  /\ relOutput' = rs
         /\ pipeline' = next.pipeline
         /\ dbCall' = next.dbCall
  /\ UNCHANGED <<jobVars, graph, relInput, ast, cyclomatic, cognitive>>

\* One session.run of the job's current store call, and executeAnalysisJob
\* up to the next one.
PipelineStoreRun(connection) ==
  /\ pipeline.phase \in StoreOps
  /\ dbCall.outcome = "pending"
  /\ LET r == StoreBatch(dbCall.op, graph, CurrentBatch(dbCall),
                         dbCall.graphId)
         stored == ~connection /\ r.ok
         c == IF connection THEN BatchFailed(dbCall, "connection")
              ELSE IF r.ok THEN BatchStored(dbCall)
              ELSE BatchFailed(dbCall, "constraint")
         next == IF dbCall.op = "storeEntities"
                 THEN AfterStoreEntities(pipeline, c, relInput, relOutput)
                 ELSE AfterStoreRelationships(pipeline, c, relInput,
                                              relOutput)
     IN  /\ graph' = IF stored THEN r.graph ELSE graph
         /\ pipeline' = next.pipeline
         /\ dbCall' = next.dbCall
  /\ UNCHANGED <<jobVars, relInput, relOutput, ast, cyclomatic, cognitive>>

\* ----------------------------------------------------------- specification
Init ==
  /\ jobs = <<>>
  /\ activeJobs = {}
  /\ jobQueue = <<>>
  /\ isProcessingQueue = FALSE
  /\ cur = 0
  /\ pc = "idle"
  /\ files = <<>>
  /\ batches = <<>>
  /\ pos = <<>>
  /\ batchEntities = <<>>
  /\ entities = <<>>
  /\ extracted = <<>>
  /\ tempDirs = {}
  /\ stopped = FALSE
  /\ reply = "none"
  /\ graph = EmptyGraph
  /\ dbCall = IdleCall
  /\ relInput = <<>>
  /\ relOutput = <<>>
  /\ ast = <<>>
  /\ cyclomatic = CalculateCyclomaticComplexity(<<>>)
  /\ cognitive = CalculateCognitiveComplexity(<<>>)
  /\ pipeline = NewPipeline

Next ==
  \/ Len(jobs) < MaxJobs /\ \E pw \in WorkerValues : AnalyzeRepository(pw)
  \/ CloneRepositoryOk
  \/ CloneRepositoryFails
  \/ \E n \in 0..MaxFiles : DiscoverFilesOk(n)
  \/ DiscoverFilesFails
  \/ \E s \in ShardIds : AnalyzeFileOk(s)
  \/ \E s \in ShardIds : AnalyzeFileInvalidSyntax(s)
  \/ \E s \in ShardIds : AnalyzeFileThrows(s)
  \/ JoinBatches
  \/ StoreEntitiesOk
  \/ StoreEntitiesFails
  \/ StoreRelationshipsOk
  \/ StoreRelationshipsFails
  \/ RemoveTempDirOk
  \/ RemoveTempDirFails
  \/ Shutdown

Spec == Init /\ [][Next]_vars

\* A step of the job that processJobQueue is running: an awaited operation
\* of executeAnalysisJob settles.
JobStep ==
  \/ CloneRepositoryOk
  \/ CloneRepositoryFails
  \/ \E n \in 0..MaxFiles : DiscoverFilesOk(n)
  \/ DiscoverFilesFails
  \/ \E s \in ShardIds : AnalyzeFileOk(s)
  \/ \E s \in ShardIds : AnalyzeFileInvalidSyntax(s)
  \/ \E s \in ShardIds : AnalyzeFileThrows(s)
  \/ JoinBatches
  \/ StoreEntitiesOk
  \/ StoreEntitiesFails
  \/ StoreRelationshipsOk
  \/ StoreRelationshipsFails
  \/ RemoveTempDirOk
  \/ RemoveTempDirFails

\* Every awaited operation of a running job settles (git, glob, the
\* analyzers, the database and fs.rm terminate).
SpecLive == Init /\ [][Next]_vars /\ WF_vars(JobStep)

\* The same program with more submissions and repositories of at most one
\* file, to let several jobs wait in the queue at once.
NextFifo ==
  \/ Len(jobs) < MaxQueued /\ \E pw \in {0 - 1, 1} : AnalyzeRepository(pw)
  \/ AnalyzeRepositoryNoUrl
  \/ ProcessJobQueue
  \/ CloneRepositoryOk
  \/ CloneRepositoryFails
  \/ \E n \in 0..1 : DiscoverFilesOk(n)
  \/ DiscoverFilesFails
  \/ \E s \in ShardIds : AnalyzeFileOk(s)
  \/ \E s \in ShardIds : AnalyzeFileInvalidSyntax(s)
  \/ \E s \in ShardIds : AnalyzeFileThrows(s)
  \/ JoinBatches
  \/ StoreEntitiesOk
  \/ StoreEntitiesFails
  \/ StoreRelationshipsOk
  \/ StoreRelationshipsFails
  \/ RemoveTempDirOk
  \/ RemoveTempDirFails
  \/ Shutdown

SpecFifo == Init /\ [][NextFifo]_vars

\* The persistence layer on its own: any caller, one call at a time.
NextStore ==
  \/ \E es \in ListsOf(EntityIds) : \E g \in GraphIds :
       StoreCall("storeEntities", es, g)
  \/ \E rs \in ListsOf(RelationshipPool) : \E g \in GraphIds :
       StoreCall("storeRelationships", rs, g)
  \/ \E connection \in BOOLEAN : StoreBatchRun(connection)
  \/ \E g \in GraphIds : DeleteGraphCall(g)
  \/ \E connection \in BOOLEAN : DeleteRelationshipsRun(connection)
  \/ \E connection \in BOOLEAN : DeleteEntitiesRun(connection)

SpecStore == Init /\ [][NextStore]_vars

\* The relationship extraction on its own, applied to every entity list.
NextResolver == \E shape \in EntityShapes : ExtractRelationshipsRun(shape)

SpecResolver == Init /\ [][NextResolver]_vars

\* The complexity metric on its own, over every function body.
NextMetrics ==
  \E kind \in NodeKinds : \E parent \in 0..Len(ast) : AddNode(kind, parent)

SpecMetrics == Init /\ [][NextMetrics]_vars

\* One job from the end of its analysis through its two store calls.
NextPipeline ==
  \/ \E shape \in EntityShapes : PipelineEntityFound(shape)
  \/ PipelineJoin
  \/ \E connection \in BOOLEAN : PipelineStoreRun(connection)

SpecPipeline == Init /\ [][NextPipeline]_vars

JobIds == 1..Len(jobs)

TypeOK ==
  /\ \A i \in JobIds :
       jobs[i].status \in {"pending", "running", "completed", "failed"}
  /\ activeJobs \subseteq JobIds
  /\ cur \in {0} \cup JobIds
  /\ pc \in {"idle", "clone", "discover", "analyze", "storeEntities",
             "storeRelationships", "rm", "hang"}
  /\ (cur = 0) = (pc = "idle")

\* ================================================================= claims
Running == {i \in JobIds : jobs[i].status = "running"}

\* C1: whatever submissions and queue steps have happened, at most one job
\* has status 'running'.
C1_AtMostOneRunning == Cardinality(Running) <= 1

\* A second job runs after the first one has completed.
C1_Witness ==
  /\ Len(jobs) = 2
  /\ jobs[1].status = "completed"
  /\ jobs[2].status = "running"

Rank(st) == CASE st = "pending" -> 0
              [] st = "running" -> 1
              [] OTHER -> 2

\* C2: a job's status only moves forward along pending -> running ->
\* (completed | failed), and a completed or failed job keeps its status.
C2_StatusForwardOnly ==
  [][\A i \in JobIds :
       /\ Rank(jobs'[i].status) >= Rank(jobs[i].status)
       /\ jobs[i].status \in Terminal => jobs'[i].status = jobs[i].status]_vars

\* C3: a terminal job has exactly one of results and error; results only
\* with status completed, error only with status failed.
C3_ExactlyOneOfResultsAndError ==
  \A i \in JobIds :
    /\ jobs[i].status \in Terminal =>
         ((jobs[i].results # <<>>) # (jobs[i].error # <<>>))
    /\ jobs[i].results # <<>> => jobs[i].status = "completed"
    /\ jobs[i].error # <<>> => jobs[i].status = "failed"

C5_InvalidSyntaxIsSkipped ==
  [][(\E s \in ShardIds : AnalyzeFileInvalidSyntax(s)) =>
       /\ jobs'[cur].skippedFiles = jobs[cur].skippedFiles + 1
       /\ batchEntities' = batchEntities]_vars

RECURSIVE SumSeq(_)
SumSeq(q) == IF q = <<>> THEN 0 ELSE Head(q) + SumSeq(Tail(q))

\* C6: when analyzeFile throws, skippedFiles grows by one, the job stays
\* running, the worker moves to the next file of its shard and no other
\* worker is affected; the files counted are exactly the files the workers
\* have gone through, and past the join that is every file of every shard.
C6_ThrowSkipsOneFile ==
  [][/\ (cur # 0 /\ cur' = cur
           /\ jobs'[cur].skippedFiles # jobs[cur].skippedFiles) =>
          /\ jobs'[cur].skippedFiles = jobs[cur].skippedFiles + 1
          /\ jobs'[cur].status = "running"
          /\ jobs'[cur].error = <<>>
          /\ pc' = "analyze"
          /\ batches' = batches
          /\ \E s \in ShardIds :
               /\ pos'[s] = pos[s] + 1
               /\ \A t \in ShardIds \ {s} : pos'[t] = pos[t]
     /\ pc = "analyze" =>
          SumSeq(pos) = jobs[cur].processedFiles + jobs[cur].skippedFiles
     /\ pc \in {"storeEntities", "storeRelationships", "rm"} =>
          \A s \in ShardIds : pos[s] = Len(batches[s])]_vars

\* In a shard of two files the first file threw and the second was analyzed.
C6_Witness ==
  /\ pc = "analyze"
  /\ Len(batches) = 1
  /\ Len(batches[1]) = 2
  /\ pos[1] = 2
  /\ batchEntities[1] = <<2>>
  /\ jobs[cur].skippedFiles = 1
  /\ jobs[cur].processedFiles = 1
  /\ jobs[cur].status = "running"

\* The message of the error thrown at each suspension point.
MessageAt(p) == CASE p = "clone" -> CloneError
                  [] p = "discover" -> DiscoverError
                  [] p = "storeEntities" -> StoreEntitiesError
                  [] p = "storeRelationships" -> StoreRelationshipsError
                  [] OTHER -> RemoveError

\* C7: when cloning, discovery or a store call throws, the job becomes
\* failed with the message in job.error and the queue goes on with the next
\* job; a failed job is never enqueued or run again.
C7_FailureIsFinal ==
  [][\A i \in JobIds :
       /\ (jobs[i].status = "running" /\ jobs'[i].status = "failed"
             /\ pc \in {"clone", "discover", "storeEntities",
                        "storeRelationships"}) =>
            /\ jobs'[i].error = <<MessageAt(pc)>>
            /\ IF jobQueue # <<>>
               THEN /\ cur' = Head(jobQueue)
                    /\ jobQueue' = Tail(jobQueue)
                    /\ jobs'[cur'].status = "running"
               ELSE cur' = 0 /\ ~isProcessingQueue'
       /\ jobs[i].status = "failed" =>
            /\ jobs'[i] = jobs[i]
            /\ i \notin Range(jobQueue')
            /\ cur' # i]_vars

\* The first job failed in storeEntities and the second one is running.
C7_Witness ==
  /\ Len(jobs) = 2
  /\ jobs[1].status = "failed"
  /\ jobs[1].error = <<StoreEntitiesError>>
  /\ jobs[2].status = "running"
  /\ cur = 2

\* C8: the temporary directory of a job is removed before the job is
\* finished: only the job inside executeAnalysisJob has one on disk.
C8_TempDirReleased == \A i \in tempDirs : cur = i

\* C9: jobs run in submission order (job ids count submissions): a job has
\* left 'pending' only if every job submitted before it is terminal.
C9_SubmissionOrder ==
  \A i \in JobIds : \A j \in JobIds :
    (i < j /\ jobs[j].status # "pending") => jobs[i].status \in Terminal

\* The second job runs after the first has ended, while the third waits.
C9_Witness ==
  /\ Len(jobs) = 3
  /\ jobs[1].status \in Terminal
  /\ jobs[2].status = "running"
  /\ jobs[3].status = "pending"
  /\ jobQueue = <<3>>

\* C10: progress stays within [0,100] and no step lowers it.
C10_ProgressMonotone ==
  [][\A i \in JobIds :
       /\ jobs[i].progress >= 0 /\ jobs[i].progress <= 100
       /\ jobs'[i].progress >= 0 /\ jobs'[i].progress <= 100
       /\ jobs'[i].progress >= jobs[i].progress]_vars

\* Two shard workers are active and one of the two files has been counted.
C10_Witness ==
  /\ pc = "analyze"
  /\ Len(batches) = 2
  /\ jobs[cur].processedFiles = 1
  /\ jobs[cur].progress = 50

\* C11: while the server runs, get_analysis_status returns the current job
\* object for every submitted id, failed jobs included, no job has left the
\* status table, and an id that was never submitted gets the not-found
\* error.
C11_StatusAlwaysQueryable ==
  ~stopped =>
    /\ activeJobs = JobIds
    /\ \A id \in JobIds :
         GetAnalysisStatus(id) = [error |-> <<>>, job |-> <<jobs[id]>>]
    /\ GetAnalysisStatus(Len(jobs) + 1) =
         [error |-> <<JobNotFound>>, job |-> <<>>]

\* A failed job is reported while a later job runs and another one waits.
C11_Witness ==
  /\ ~stopped
  /\ Len(jobs) = 3
  /\ GetAnalysisStatus(1).job # <<>>
  /\ GetAnalysisStatus(1).job[1].status = "failed"
  /\ GetAnalysisStatus(1).job[1].error # <<>>
  /\ jobs[2].status = "running"
  /\ jobQueue = <<3>>

\* A request is malformed when repository_url is missing or when
\* parallel_workers is not a positive number (the configuration schema
\* requires parallelWorkers to be positive).
MalformedWorkers(pw) == pw <= 0

Rejected ==
  /\ reply' = "InvalidParams"
  /\ jobs' = jobs
  /\ activeJobs' = activeJobs
  /\ jobQueue' = jobQueue
  /\ cur' = cur
  /\ pc' = pc

\* C12: a malformed analyze request raises an error, creates no job, leaves
\* activeJobs and jobQueue unchanged and starts no executeAnalysisJob run.
C12_MalformedRejected ==
  [][/\ AnalyzeRepositoryNoUrl => Rejected
     /\ \A pw \in WorkerValues :
          (MalformedWorkers(pw) /\ AnalyzeRepository(pw)) => Rejected]_vars

\* C13: every relationship in the store has its source entity and its
\* target entity in the store under the relationship's own graph id.
C13_NoDanglingRelationship ==
  \A r \in BagToSet(graph.rels) :
    /\ BagIn(Node(r.sourceId, r.graphId), graph.nodes)
    /\ BagIn(Node(r.targetId, r.graphId), graph.nodes)

\* A relationship list with a placeholder target was written without an
\* error: the resolved relationship is stored, the unresolved one is not.
C13_Witness ==
  /\ dbCall.op = "storeRelationships"
  /\ dbCall.outcome = "resolved"
  /\ \E k \in 1..Len(dbCall.items) : dbCall.items[k].targetId = Placeholder
  /\ \E k \in 1..Len(dbCall.items) :
       BagIn(StoredRelationship(dbCall.items[k], dbCall.graphId), graph.rels)
  /\ \A r \in BagToSet(graph.rels) : r.targetId # Placeholder

\* C14: storeEntities is refused for an id collision only when an entity of
\* the batch is already stored under the same graph id; ids stored under
\* another graph id never collide.
C14_NoCollisionAcrossGraphIds ==
  (dbCall.op = "storeEntities" /\ dbCall.failure = "constraint") =>
    \E e \in Range(dbCall.attempts[Len(dbCall.attempts)]) :
      BagIn(Node(e, dbCall.graphId), graph.nodes)

\* C15: after a store call that reached the server with all its statements,
\* the same call made again leaves the store as it is.
C15_StoreIdempotent ==
  (dbCall.op \in StoreOps /\ dbCall.outcome # "pending"
                          /\ dbCall.failure # "connection") =>
    StoreFrom(dbCall.op, graph, dbCall.items, dbCall.graphId, 0).graph = graph

\* A list of two batches has been stored; the second call is refused by
\* the uniqueness constraint on its first batch.
C15_Witness ==
  /\ dbCall.op = "storeEntities"
  /\ dbCall.outcome = "resolved"
  /\ Len(dbCall.attempts) = 2
  /\ \A e \in Range(dbCall.items) :
       CopiesIn(Node(e, dbCall.graphId), graph.nodes) = 1
  /\ ~StoreFrom(dbCall.op, graph, dbCall.items, dbCall.graphId, 0).ok

IsPrefix(p, q) == Len(p) <= Len(q) /\ SubSeq(q, 1, Len(p)) = p

BatchesInOrder ==
  dbCall.op \in StoreOps =>
    /\ \A k \in 1..Len(dbCall.attempts) :
         Len(dbCall.attempts[k]) \in 1..ConfigBatchSize
    /\ \A k \in 1..(Len(dbCall.attempts) - 1) :
         Len(dbCall.attempts[k]) = ConfigBatchSize
    /\ IsPrefix(Concat(dbCall.attempts), dbCall.items)
    /\ dbCall.outcome = "resolved" =>
         Concat(dbCall.attempts) = dbCall.items /\ dbCall.failure = "none"
    /\ dbCall.failure # "none" =>
         dbCall.outcome = "rejected" /\ dbCall.error = <<StoreError(dbCall.op)>>

\* C16: the statements of a store call carry consecutive slices of the
\* input, each of at most batchSize items and in input order; a failed
\* statement ends the call with DatabaseError, and nothing more is written
\* for that call: no second attempt of the batch, no later batch.
C16_BatchesInOrderNoRetry ==
  /\ []BatchesInOrder
  /\ [][(dbCall.op \in StoreOps /\ dbCall.outcome = "rejected") =>
          (graph' = graph /\ dbCall'.attempts = <<>>)]_vars

\* The second batch of a call failed after the first one was written.
C16_Witness ==
  /\ dbCall.op \in StoreOps
  /\ dbCall.outcome = "rejected"
  /\ dbCall.error = <<StoreError(dbCall.op)>>
  /\ Len(dbCall.attempts) = 2
  /\ Len(Concat(dbCall.attempts)) = Len(dbCall.items)
  /\ \E e \in Range(dbCall.attempts[1]) :
       BagIn(Node(e, dbCall.graphId), graph.nodes)

OtherGraphs(b, graphId) ==
  {<<x, CopiesIn(x, b)>> : x \in {y \in BagToSet(b) : y.graphId # graphId}}

\* C17: no statement of deleteGraph(g) changes an entity or a relationship
\* of another graph id, and when deleteGraph(g) resolves no entity and no
\* relationship of g is left.
C17_DeleteGraphFrame ==
  [][(dbCall.op = "deleteGraph" /\ dbCall.outcome = "pending") =>
       /\ OtherGraphs(graph'.nodes, dbCall.graphId)
            = OtherGraphs(graph.nodes, dbCall.graphId)
       /\ OtherGraphs(graph'.rels, dbCall.graphId)
            = OtherGraphs(graph.rels, dbCall.graphId)
       /\ dbCall'.outcome = "resolved" =>
            /\ \A n \in BagToSet(graph'.nodes) : n.graphId # dbCall.graphId
            /\ \A r \in BagToSet(graph'.rels) : r.graphId # dbCall.graphId]_vars

\* deleteGraph(g) is between its two statements: the relationships of g are
\* gone, its entities are still there, and the other graph id holds
\* entities and a relationship.
C17_Witness ==
  /\ dbCall.op = "deleteGraph"
  /\ dbCall.i = 1
  /\ \E n \in BagToSet(graph.nodes) : n.graphId = dbCall.graphId
  /\ \A r \in BagToSet(graph.rels) : r.graphId # dbCall.graphId
  /\ \E r \in BagToSet(graph.rels) : r.graphId # dbCall.graphId

Holds(graphId, ids) ==
  \A rel \in RelationshipPool :
    BagIn(StoredRelationship(rel, graphId), graph.rels) <=> rel.id \in ids

\* C19: on a graph id holding the chain A->B->C->A of IMPORTS relationships
\* findCircularDependencies returns a cycle with the names A, B and C, and
\* on one holding only A->B->C it returns no cycle.
C19_CycleDetection ==
  \A g \in GraphIds :
    LET found == FindCircularDependencies(graph, g, 10)
    IN  /\ Holds(g, {"r1", "r2", "r3"}) =>
             /\ found.error = <<>>
             /\ \E c \in found.cycles : {"A", "B", "C"} \subseteq Range(c)
        /\ Holds(g, {"r1", "r2"}) =>
             /\ found.error = <<>>
             /\ found.cycles = {}

ContainingFiles(e) ==
  {k \in 1..Len(relInput) : /\ relInput[k].type = "File"
                            /\ relInput[k].filePath = e.filePath}

ContainsEdges(e) ==
  {k \in 1..Len(relOutput) : /\ relOutput[k].type = "CONTAINS"
                             /\ relOutput[k].targetId = e.id}

\* C18: every non-File entity that shares its filePath with exactly one
\* File entity gets exactly one CONTAINS edge; its source is that File
\* entity and its strength and confidence are 1.0.
C18_ContainmentComplete ==
  \A i \in 1..Len(relInput) :
    LET e == relInput[i]
    IN  (e.type # "File" /\ Cardinality(ContainingFiles(e)) = 1) =>
          /\ Cardinality(ContainsEdges(e)) = 1
          /\ \A k \in ContainsEdges(e) :
               /\ relOutput[k].sourceId \in ContainingFiles(e)
               /\ relOutput[k].strength = 10
               /\ relOutput[k].confidence = 10

\* Two files and a class that lies in the first of them only: the class has
\* its edge from the first file.
C18_Witness ==
  /\ Len(relInput) = 3
  /\ relInput[1].type = "File" /\ relInput[1].filePath = "a.ts"
  /\ relInput[2].type = "File" /\ relInput[2].filePath = "b.ts"
  /\ relInput[3].type = "Class" /\ relInput[3].filePath = "a.ts"
  /\ \E k \in 1..Len(relOutput) :
       relOutput[k] = Relationship(1, 3, "CONTAINS", 10, 10)

Branching ==
  {"if", "while", "do", "for", "forin", "forof", "switch", "case",
   "conditional", "catch"}

Counted(t) == {k \in 1..Len(t) : t[k].kind \in Branching \cup {"and", "or"}}

\* C20: the cyclomatic complexity of a function is 1 plus the number of
\* branching constructs and of && and || in its subtree, and one more
\* node raises it by 1 when the node is one of these and by 0 otherwise.
C20_CyclomaticCounts ==
  /\ [](cyclomatic = 1 + Cardinality(Counted(ast)))
  /\ [][Len(ast') = Len(ast) + 1 =>
          cyclomatic' = cyclomatic
            + (IF Len(ast') \in Counted(ast') THEN 1 ELSE 0)]_vars

\* A function whose body is one if with an && in its condition.
C20_Witness ==
  /\ ast = <<[kind |-> "if", parent |-> 0], [kind |-> "and", parent |-> 1]>>
  /\ cyclomatic = 3

RECURSIVE InNestedFunction(_, _)
InNestedFunction(t, k) ==
  LET p == t[k].parent
  IN  p # 0 /\ (t[p].kind = "function" \/ InNestedFunction(t, p))

\* C21: the cyclomatic complexity of a function counts the constructs of
\* its own body only: it is the value the function would have if the bodies
\* of the functions nested in it held no branching construct.
C21_NestedFunctionsExcluded ==
  cyclomatic =
    1 + Cardinality({k \in Counted(ast) : ~InNestedFunction(ast, k)})

ControlFlow ==
  {"if", "switch", "while", "do", "for", "forin", "forof", "catch"}

\* Number of control-flow constructs around node k.
RECURSIVE NestingDepth(_, _)
NestingDepth(t, k) ==
  LET p == t[k].parent
  IN  IF p = 0 THEN 0
      ELSE (IF t[p].kind \in ControlFlow THEN 1 ELSE 0) + NestingDepth(t, p)

\* What node k adds when the constructs of the set counted are weighted
\* with 1 + nesting depth and && and || add a flat 1.
WeightedIncrement(t, k, counted) ==
  IF t[k].kind \in counted THEN 1 + NestingDepth(t, k)
  ELSE IF t[k].kind \in {"and", "or"} THEN 1
  ELSE 0

RECURSIVE Weighted(_, _, _)
Weighted(t, k, counted) ==
  IF k = 0 THEN 0
  ELSE WeightedIncrement(t, k, counted) + Weighted(t, k - 1, counted)

\* C22 as claimed: the cognitive complexity counts the branching constructs
\* the cyclomatic complexity counts, each with 1 + its nesting depth, and
\* every && and || with a flat 1.
C22_CognitiveSameBranchingSet ==
  cognitive = Weighted(ast, Len(ast), Branching)

\* C22 as amended: the constructs counted are those of the cyclomatic
\* complexity without the case clause, which adds nothing; each adds
\* 1 + its nesting depth, and every && and || adds a flat 1.
C22_CognitiveNesting ==
  cognitive = Weighted(ast, Len(ast), Branching \ {"case"})

\* An if in an if, with an && in the inner condition: 1 + 2 + 1.
C22_Witness ==
  /\ ast = <<[kind |-> "if", parent |-> 0], [kind |-> "if", parent |-> 1],
             [kind |-> "and", parent |-> 2]>>
  /\ cognitive = 4

\* The shards exist from the end of the shard-building loop to the end of
\* executeAnalysisJob.
Sharded == pc \in {"analyze", "storeEntities", "storeRelationships", "rm"}

ShardsCover ==
  /\ Concat(batches) = files
  /\ \A f \in Range(files) :
       Cardinality({<<s, k>> \in ShardIds \X (1..Len(files)) :
                      k <= Len(batches[s]) /\ batches[s][k] = f}) = 1
  /\ \A s \in ShardIds :
       /\ Len(batches[s]) >= 1
       /\ Len(batches[s]) <= Len(batches[1])
       /\ s < Len(batches) => Len(batches[s]) = Len(batches[1])

Joined == pc \in {"storeEntities", "storeRelationships", "rm"}

JoinedOnce ==
  /\ pc = "analyze" => extracted = <<>>
  /\ Joined =>
       /\ \A s \in ShardIds : pos[s] = Len(batches[s])
       /\ entities = Concat(batchEntities)
       /\ Len(extracted) <= 1
       /\ entities # <<>> => extracted = <<entities>>
       /\ entities = <<>> => extracted = <<>>

C29_ShardLoopTerminates ==
  cur # 0 => ~(pc = "hang" /\ LoopDiverges(Len(files), BatchSize(Len(files), jobs[cur].parallelWorkers)))

\* C26: a call of processJobQueue made while another invocation is active
\* returns without removing a job from the queue, starting a job, changing
\* the processing flag or changing any job.
C26_ReentrantCallNoOp ==
  [][(isProcessingQueue /\ ProcessJobQueue) =>
       /\ jobQueue' = jobQueue
       /\ jobs' = jobs
       /\ activeJobs' = activeJobs
       /\ isProcessingQueue' = isProcessingQueue
       /\ cur' = cur
       /\ pc' = pc]_vars

\* processJobQueue was called, and returned, while a job was being analysed
\* and another one was waiting in the queue.
C26_Witness ==
  /\ reply = "processJobQueue returned"
  /\ isProcessingQueue
  /\ pc = "analyze"
  /\ Len(jobQueue) > 0

Orders(n) ==
  {p \in [1..n -> 1..n] : \A i, j \in 1..n : p[i] = p[j] => i = j}

Permuted(es, p) == [k \in 1..Len(es) |-> es[p[k]]]

\* An edge as the comparison sees it: the target counts for containment
\* edges only (the other targets are fresh uuids).
Edge(r) ==
  [type |-> r.type, sourceId |-> r.sourceId,
   target |-> IF r.type = "CONTAINS" THEN <<r.targetId>> ELSE <<>>,
   strength |-> r.strength, confidence |-> r.confidence]

EdgeSet(rs) == {Edge(rs[k]) : k \in 1..Len(rs)}

\* C27: extractRelationships returns the same set of edges for every
\* permutation of the same entity list, edges compared by type, source,
\* target (containment only), strength and confidence.
C27_OrderIndependent ==
  \A p \in Orders(Len(relInput)) :
    EdgeSet(ExtractRelationships(Permuted(relInput, p))) = EdgeSet(relOutput)

\* A class listed before its file, which has an import: the output has the
\* file's containment edge and its import edge.
C27_Witness ==
  /\ Len(relInput) = 3
  /\ relInput[1].type = "Class" /\ relInput[1].filePath = "a.ts"
  /\ relInput[2].type = "File" /\ relInput[2].filePath = "a.ts"
  /\ relInput[2].imports # <<>>
  /\ relInput[3].type = "Function" /\ relInput[3].filePath = "a.ts"
  /\ EdgeSet(relOutput) =
       {Edge(Relationship(2, 1, "CONTAINS", 10, 10)),
        Edge(Relationship(2, 3, "CONTAINS", 10, 10)),
        Edge(Relationship(2, Placeholder, "IMPORTS", 8, 9))}

EntitiesInGraph ==
  \A k \in 1..Len(relInput) :
    BagIn(Node(relInput[k].id, JobGraph), graph.nodes)

\* C25: within one job no relationship batch is written, and
\* storeRelationships is not called, before every entity batch of the job
\* has been written; when storeEntities fails, storeRelationships is never
\* called for the job.
C25_EntitiesBeforeRelationships ==
  /\ [](("storeRelationships" \in Range(pipeline.calls)) => EntitiesInGraph)
  /\ [](pipeline.error = <<StoreEntitiesError>> =>
          /\ pipeline.calls = <<"storeEntities">>
          /\ BagCardinality(graph.rels) = 0)
  /\ [][BagCardinality(graph.rels') # BagCardinality(graph.rels) =>
          EntitiesInGraph /\ dbCall.op = "storeRelationships"]_vars

\* Three entities were written in two batches, then a containment edge.
C25_Witness ==
  /\ pipeline.phase = "completed"
  /\ Len(relInput) = 3
  /\ EntitiesInGraph
  /\ BagCardinality(graph.rels) > 0

Persisted(k) ==
  BagIn(StoredRelationship(RelationshipItems(relOutput)[k], JobGraph),
        graph.rels)

BothEndsEntities(k) ==
  /\ \E i \in 1..Len(relInput) : relInput[i].id = relOutput[k].sourceId
  /\ relOutput[k].type = "CONTAINS"
  /\ \E i \in 1..Len(relInput) : relInput[i].id = relOutput[k].targetId

\* C30: for a completed job the relationships persisted under its graph id
\* are the extracted relationships with both ends among the job's entities,
\* and their number is relationshipsFound and the length of
\* results.relationships.
C30_PersistedEqualsFound ==
  pipeline.phase = "completed" =>
    /\ \A k \in 1..Len(relOutput) : Persisted(k) <=> BothEndsEntities(k)
    /\ BagCardinality(graph.rels) = pipeline.relationshipsFound
    /\ pipeline.relationshipsFound
         = Len(pipeline.results[1].relationships)

\* C28: every job accepted by analyzeRepository eventually reaches a
\* terminal status, completed or failed, when every external step of a job
\* terminates and the server is not shut down.
C28_AcceptedJobTerminates ==
  \A i \in 1..MaxQueued :
    (i \in JobIds) ~>
      (stopped \/ (i \in JobIds /\ jobs[i].status \in Terminal))
====
